---- MODULE Spec2Model ----
(***************************************************************************)
(* PyMan collection runner: run_collection and its helpers                 *)
(* (src/pyman/core_logic.py) and the CLI boundary handle_run_command       *)
(* (src/pyman/pyman.py).                                                   *)
(*                                                                         *)
(* An environment is a function from Keys to a value or NoVal (key not in  *)
(* the dict).  Values carry their provenance: "g" was loaded from the      *)
(* environment file, "f" comes from a folder config.yaml, "h" is written   *)
(* by a hook script, "r" is the collection root path injected by the       *)
(* runner.  Request files are identified by their position 1..n in         *)
(* request_files (the CLI collects distinct paths).                        *)
(***************************************************************************)
EXTENDS Integers, Sequences, FiniteSets, TLC

\* ---------------------------------------------------------------- bounds
MaxFiles == 2

\* ------------------------------------------------------------ value sets
NoVal == "absent"
RootKey == "_collection_root"
SessionKey == "_SESSION"
Keys == {RootKey, SessionKey, "BASE", "TOKEN"}
HookKeys == {"TOKEN"}

\* HTTP statuses a server may answer with; 0 stands for "no response".
Statuses == {200, 400, 499, 500}

NoResponse == [req |-> 0, status |-> 0]

EmptyEnv == [k \in Keys |-> NoVal]

\* Contents of .environment-variables found on disk when the run starts.
InitFiles ==
    { [k \in Keys |-> IF k \in S THEN "g" ELSE NoVal] : S \in SUBSET {"BASE", "TOKEN"} }

\* Environment files that also hold '_'-prefixed keys.
InitFilesReserved ==
    { [k \in Keys |-> IF k \in S THEN "g" ELSE NoVal] :
        S \in SUBSET {RootKey, SessionKey, "TOKEN"} }

\* Hook scripts that also assign or delete '_'-prefixed keys.
HookKeysReserved == {"TOKEN", RootKey, SessionKey}

\* Contents of a folder's config.yaml (empty when the file is missing).
FolderConfigs == { EmptyEnv, [EmptyEnv EXCEPT !["BASE"] = "f"] }

\* What a hook script does to the dict it is handed before it ends.
HookEffectsOn(keys) ==
    { [op |-> "none", key |-> "TOKEN"] }
        \cup { [op |-> o, key |-> k] : o \in {"set", "del"}, k \in keys }

HookEffects == HookEffectsOn(HookKeys)

\* How a hook script ends: normally, by AssertionError, by another Exception.
HookOutcomes == {"ok", "assert", "error"}

VARIABLES
    pc,                   \* position in handle_run_command / run_collection
    n,                    \* len(request_files)
    idx,                  \* index of the request file being processed
    env_file,             \* .environment-variables on disk
    global_env_vars,
    current_vars,
    results,
    failed_files,
    request_success,
    script_error,         \* pre-hook's script_failed_exception is not None
    has_pos_script,
    response,
    last_response,
    post_script_error,
    post_assertion_error,
    folder_vars,
    trace,                \* history: stages executed, in order
    classified,           \* history: one record per tallied request
    cpos_args,            \* history: arguments of the collection post-hook
    raised,               \* run_collection ended by raise
    err_paths,            \* the paths named in the raised Exception
    execution_failed,     \* pyman.py: set when run_collection raised
    exit_code,            \* process exit status (-1 while running)
    env_writes,           \* calls of write_environment_file made by the last step
    pre_requests,         \* request_data['pre-requests'] of the current file
    script_keys,          \* disk: the keys the hook scripts assign or delete
    pre_requests_of,      \* disk: the 'pre-requests' list of each request file
    hk,                   \* one call of execute_script taken on its own
    st,                   \* load / write / load of an environment file's text
    sb,                   \* one call of substitute_variables taken on its own
    xr                    \* one call of execute_request taken on its own

vars == << pc, n, idx, env_file, global_env_vars, current_vars, results,
           failed_files, request_success, script_error, has_pos_script,
           response, last_response, post_script_error, post_assertion_error,
           folder_vars, trace, classified, cpos_args, raised, err_paths,
           execution_failed, exit_code, env_writes, pre_requests,
           script_keys, pre_requests_of, hk, st, sb, xr >>

\* What the run reads from disk and never changes.
diskVars == << script_keys, pre_requests_of >>

\* The run's own variables.
runVars == << pc, n, idx, env_file, global_env_vars, current_vars, results,
              failed_files, request_success, script_error, has_pos_script,
              response, last_response, post_script_error,
              post_assertion_error, folder_vars, trace, classified, cpos_args,
              raised, err_paths, execution_failed, exit_code, env_writes,
              pre_requests, script_keys, pre_requests_of >>

\* The functions of core_logic.py exercised on their own, outside a run.
compVars == << hk, st, sb, xr >>

\* --------------------------------------------------------- pure helpers

\* str.startswith('_')
IsReserved(k) == k \in {RootKey, SessionKey}

\* dict.update: every key of src overwrites dst, other keys of dst stay.
DictUpdate(dst, src) ==
    [k \in Keys |-> IF src[k] # NoVal THEN src[k] ELSE dst[k]]

\* Lines 171-191 on the mapping the file holds (its text is taken up by
\* load_environment_text below).
load_environment(file) == file

\* Variant: the filter of line 200 missing.
write_environment_file_Unfiltered(environment_vars) == environment_vars

\* Lines 199-208 (the file as the mapping it holds).
write_environment_file(environment_vars) ==
    [k \in Keys |-> IF IsReserved(k) THEN NoVal ELSE environment_vars[k]]

ApplyEffect(env, eff) ==
    CASE eff.op = "set" -> [env EXCEPT ![eff.key] = "h"]
      [] eff.op = "del" -> [env EXCEPT ![eff.key] = NoVal]
      [] OTHER -> env

\* Variant: env_before bound to the dict itself instead of a copy of it.
execute_script_AliasedSnapshot(exists, environment_vars, eff, outcome) ==
    IF ~exists
    THEN [env |-> environment_vars, env_changed |-> FALSE,
          script_failed |-> FALSE, assertion_error |-> FALSE]
    ELSE LET after == ApplyEffect(environment_vars, eff)
             env_before == after
         IN [env |-> after,
             env_changed |-> after # env_before,
             script_failed |-> outcome # "ok",
             assertion_error |-> outcome = "assert"]

execute_script(exists, environment_vars, eff, outcome) ==
    IF ~exists
    THEN [env |-> environment_vars, env_changed |-> FALSE,
          script_failed |-> FALSE, assertion_error |-> FALSE]
    ELSE LET env_before == environment_vars
             after == ApplyEffect(environment_vars, eff)
         IN [env |-> after,
             env_changed |-> after # env_before,
             script_failed |-> outcome # "ok",
             assertion_error |-> outcome = "assert"]

Event(i, s) == [req |-> i, stage |-> s]

\* ------------------------------------------------------------------ Init
\* Lines 531-538 and 548: the state of run_collection before the first
\* hook, once the request list and the disk contents are known.
RunStart ==
    /\ pc = "collection_pre"
    /\ idx = 0
    /\ global_env_vars = [load_environment(env_file) EXCEPT ![RootKey] = "r"]
    /\ current_vars = EmptyEnv
    /\ results = [total |-> 0, success |-> 0, failure |-> 0, warnings |-> 0]
    /\ failed_files = << >>
    /\ request_success = TRUE
    /\ script_error = FALSE
    /\ has_pos_script = FALSE
    /\ response = NoResponse
    /\ last_response = NoResponse
    /\ post_script_error = FALSE
    /\ post_assertion_error = FALSE
    /\ folder_vars = EmptyEnv
    /\ trace = << >>
    /\ classified = << >>
    /\ cpos_args = [called |-> FALSE, env |-> EmptyEnv, response |-> NoResponse]
    /\ raised = FALSE
    /\ err_paths = {}
    /\ execution_failed = FALSE
    /\ exit_code = -1
    /\ env_writes = 0
    /\ pre_requests = {}

\* No function is being exercised on its own.
CompIdle ==
    /\ hk = [pc |-> "idle"]
    /\ st = [pc |-> "idle"]
    /\ sb = [pc |-> "idle"]
    /\ xr = [pc |-> "idle"]

Init ==
    /\ CompIdle
    /\ n \in 1..MaxFiles
    /\ env_file \in InitFiles
    /\ script_keys = HookKeys
    /\ pre_requests_of = [f \in 1..n |-> {}]
    /\ RunStart

\* A run of one request over a collection whose environment file and hook
\* scripts use '_'-prefixed keys.
InitReserved ==
    /\ CompIdle
    /\ n = 1
    /\ env_file \in InitFilesReserved
    /\ script_keys = HookKeysReserved
    /\ pre_requests_of = [f \in 1..n |-> {}]
    /\ RunStart


\* The 'pre-requests' lists of two request files: none, one file naming the
\* other, each naming the other.
DependencyMaps ==
    { [f \in 1..2 |-> {}],
      [f \in 1..2 |-> IF f = 1 THEN {2} ELSE {}],
      [f \in 1..2 |-> IF f = 2 THEN {1} ELSE {}],
      [f \in 1..2 |-> {3 - f}] }

\* A collection of two request files that declare dependencies.
InitDeps ==
    /\ CompIdle
    /\ n = 2
    /\ env_file = EmptyEnv
    /\ script_keys = HookKeys
    /\ pre_requests_of \in DependencyMaps
    /\ RunStart

\* ------------------------------------------------ run_collection: pieces

\* Lines 577-579 and 603-607: what a mutating request hook leaves in the
\* global dict.
MergeBack(global, current) == DictUpdate(global, current)

\* Variant: the file is rewritten after every hook invocation.
SavesAfterHook_Always(env_changed) == 1

\* Lines 545-546, 577-579, 603-607, 660-661: the number of calls of
\* write_environment_file that follow one hook invocation.
SavesAfterHook(env_changed) == IF env_changed THEN 1 ELSE 0

\* Variant: last_response assigned without the "is not None" test.
NextLastResponse_Unguarded(last, resp) == resp

\* Lines 591-593: the response kept for the collection post-hook.
NextLastResponse(last, resp) == IF resp # NoResponse THEN resp ELSE last

\* Variant: line 642 nested under the status-0 branch and the server-error
\* test written "> 500".
ClassifyRequest_Gt500(has_pos, post_assert, post_err, http_status, success) ==
    IF has_pos
    THEN [request_success |-> IF post_assert \/ post_err THEN FALSE ELSE success,
          warning |-> FALSE]
    ELSE [request_success |-> IF http_status > 500 \/ http_status = 0
                              THEN FALSE ELSE success,
          warning |-> (400 <= http_status /\ http_status < 500)]

\* Variant: the elif of lines 623-625 missing, so that only assertion
\* failures of the post-hook fail the request.
ClassifyRequest_AssertOnly(has_pos, post_assert, post_err, http_status, success) ==
    IF has_pos
    THEN [request_success |-> IF post_assert THEN FALSE ELSE success,
          warning |-> FALSE]
    ELSE [request_success |-> FALSE,
          warning |-> (400 <= http_status /\ http_status < 500)]

\* Lines 613-642: the classification of a request whose post-hook stage ran.
\* Line 642 sits at the indentation of the else block, after its if/elif
\* chain, so it executes for every request without a post-hook.
ClassifyRequest_PostDecidesAlone(has_pos, post_assert, post_err, http_status, success) ==
    IF has_pos
    THEN [request_success |-> ~(post_assert \/ post_err),
          warning |-> FALSE]
    ELSE [request_success |-> FALSE,
          warning |-> (400 <= http_status /\ http_status < 500)]

ClassifyRequest(has_pos, post_assert, post_err, http_status, success) ==
    IF has_pos
    THEN [request_success |-> IF post_assert \/ post_err THEN FALSE ELSE success,
          warning |-> FALSE]
    ELSE [request_success |-> FALSE,
          warning |-> (400 <= http_status /\ http_status < 500)]

\* Lines 648-652.
TallyResults_FailureNotCounted(res, success) ==
    IF success
    THEN [res EXCEPT !.success = @ + 1]
    ELSE res

TallyResults(res, success) ==
    IF success
    THEN [res EXCEPT !.success = @ + 1]
    ELSE [res EXCEPT !.failure = @ + 1]

\* Variant: the test of line 680 written "> 1".
AggregateError_Gt1(res, failed) ==
    [raise |-> res.failure > 1,
     paths |-> IF res.failure > 1
               THEN { failed[i] : i \in 1..Len(failed) }
               ELSE {}]

\* Lines 680-682: whether the run raises and which paths the message lists.
AggregateError(res, failed) ==
    [raise |-> res.failure > 0,
     paths |-> IF res.failure > 0
               THEN { failed[i] : i \in 1..Len(failed) }
               ELSE {}]

\* ---------------------------------------------------------------- actions

\* Lines 540-546.
CollectionPreScript ==
    /\ pc = "collection_pre"
    /\ \E exists \in BOOLEAN, eff \in HookEffectsOn(script_keys), outcome \in HookOutcomes :
         LET r == execute_script(exists, global_env_vars, eff, outcome) IN
         /\ global_env_vars' = r.env
         /\ env_file' = IF r.env_changed
                        THEN write_environment_file(r.env) ELSE env_file
         /\ env_writes' = SavesAfterHook(r.env_changed)
         /\ trace' = IF exists
                     THEN Append(trace, Event(0, "collection_pre")) ELSE trace
    /\ pc' = "loop"
    /\ UNCHANGED << pre_requests, diskVars, compVars >>
    /\ UNCHANGED << n, idx, current_vars, results, failed_files,
                    request_success, script_error, has_pos_script, response,
                    last_response, post_script_error, post_assertion_error,
                    folder_vars, classified, cpos_args, raised, err_paths,
                    execution_failed, exit_code >>

\* Lines 549-562: the head of one iteration of the for loop.
BeginRequest ==
    /\ pc = "loop"
    /\ idx < n
    /\ idx' = idx + 1
    /\ results' = [results EXCEPT !.total = @ + 1]
    /\ request_success' = TRUE
    /\ \E fv \in FolderConfigs :
         /\ folder_vars' = fv
         /\ current_vars' = DictUpdate(global_env_vars, fv)
    /\ response' = NoResponse
    /\ script_error' = FALSE
    /\ has_pos_script' = FALSE
    /\ post_script_error' = FALSE
    /\ post_assertion_error' = FALSE
    /\ pc' = "parse"
    /\ pre_requests' = {}
    /\ env_writes' = 0
    /\ UNCHANGED << diskVars, compVars >>
    /\ UNCHANGED << n, env_file, global_env_vars, failed_files, last_response,
                    trace, classified, cpos_args, raised, err_paths,
                    execution_failed, exit_code >>

\* Variant: the request pre-hook stage is not entered after parsing.
ParseRequest_SkipPre ==
    /\ pc = "parse"
    /\ \E parsed \in BOOLEAN :
         /\ request_success' = parsed
         /\ pc' = IF parsed THEN "dispatch" ELSE "tally"
         /\ pre_requests' = IF parsed THEN pre_requests_of[idx] ELSE {}
    /\ trace' = Append(trace, Event(idx, "parse"))
    /\ env_writes' = 0
    /\ UNCHANGED << diskVars, compVars >>
    /\ UNCHANGED << n, idx, env_file, global_env_vars, current_vars, results,
                    failed_files, script_error, has_pos_script, response,
                    last_response, post_script_error, post_assertion_error,
                    folder_vars, classified, cpos_args, raised, err_paths,
                    execution_failed, exit_code >>

\* Lines 565-573: parse_request_file returns or raises.
ParseRequest ==
    /\ pc = "parse"
    /\ \E parsed \in BOOLEAN :
         /\ request_success' = parsed
         /\ pc' = IF parsed THEN "req_pre" ELSE "tally"
         /\ pre_requests' = IF parsed THEN pre_requests_of[idx] ELSE {}
    /\ trace' = Append(trace, Event(idx, "parse"))
    /\ env_writes' = 0
    /\ UNCHANGED << diskVars, compVars >>
    /\ UNCHANGED << n, idx, env_file, global_env_vars, current_vars, results,
                    failed_files, script_error, has_pos_script, response,
                    last_response, post_script_error, post_assertion_error,
                    folder_vars, classified, cpos_args, raised, err_paths,
                    execution_failed, exit_code >>

\* Lines 574-581.
RequestPreScript ==
    /\ pc = "req_pre"
    /\ \E exists \in BOOLEAN, eff \in HookEffectsOn(script_keys), outcome \in HookOutcomes :
         LET r == execute_script(exists, current_vars, eff, outcome)
             g == IF r.env_changed
                  THEN MergeBack(global_env_vars, r.env) ELSE global_env_vars
         IN
         /\ current_vars' = r.env
         /\ global_env_vars' = g
         /\ env_file' = IF r.env_changed
                        THEN write_environment_file(g) ELSE env_file
         /\ env_writes' = SavesAfterHook(r.env_changed)
         /\ script_error' = r.script_failed
         /\ request_success' = IF r.script_failed THEN FALSE ELSE request_success
    /\ trace' = Append(trace, Event(idx, "req_pre"))
    /\ pc' = "dispatch"
    /\ UNCHANGED << pre_requests, diskVars, compVars >>
    /\ UNCHANGED << n, idx, results, failed_files, has_pos_script, response,
                    last_response, post_script_error, post_assertion_error,
                    folder_vars, classified, cpos_args, raised, err_paths,
                    execution_failed, exit_code >>

\* Variant: no handler at line 644, an exception raised while building the
\* request leaves run_collection.
ExecuteRequest_Escapes ==
    /\ pc = "dispatch"
    /\ \E pos \in BOOLEAN :
         /\ has_pos_script' = pos
         /\ \/ \E s \in Statuses :
                 /\ response' = [req |-> idx, status |-> s]
                 /\ last_response' = NextLastResponse(last_response, response')
                 /\ pc' = "req_post"
                 /\ UNCHANGED << request_success, raised >>
            \/ /\ response' = NoResponse
               /\ last_response' = NextLastResponse(last_response, response')
               /\ pc' = "req_post"
               /\ UNCHANGED << request_success, raised >>
            \/ /\ raised' = TRUE
               /\ pc' = "returned"
               /\ UNCHANGED << request_success, response, last_response >>
    /\ trace' = Append(trace, Event(idx, "dispatch"))
    /\ env_writes' = 0
    /\ UNCHANGED << pre_requests, diskVars, compVars >>
    /\ UNCHANGED << n, idx, env_file, global_env_vars, current_vars, results,
                    failed_files, script_error, post_script_error,
                    post_assertion_error, folder_vars, classified, cpos_args,
                    err_paths, execution_failed, exit_code >>

\* Lines 585-595 with execute_request (348-523).  execute_request returns a
\* response, returns None (the transport raised and the handler logged it),
\* or lets an exception out (building the request failed), which the
\* handler of line 644 turns into a failure of this request.
ExecuteRequest ==
    /\ pc = "dispatch"
    /\ \E pos \in BOOLEAN :
         /\ has_pos_script' = pos
         /\ \/ \E s \in Statuses :
                 /\ response' = [req |-> idx, status |-> s]
                 /\ last_response' = NextLastResponse(last_response, response')
                 /\ pc' = "req_post"
                 /\ UNCHANGED request_success
            \/ /\ response' = NoResponse
               /\ last_response' = NextLastResponse(last_response, response')
               /\ pc' = "req_post"
               /\ UNCHANGED request_success
            \/ /\ request_success' = FALSE
               /\ pc' = "tally"
               /\ UNCHANGED << response, last_response >>
    /\ trace' = Append(trace, Event(idx, "dispatch"))
    /\ env_writes' = 0
    /\ UNCHANGED << pre_requests, diskVars, compVars >>
    /\ UNCHANGED << n, idx, env_file, global_env_vars, current_vars, results,
                    failed_files, script_error, post_script_error,
                    post_assertion_error, folder_vars, classified, cpos_args,
                    raised, err_paths, execution_failed, exit_code >>

\* Lines 599-607.
RequestPostScript ==
    /\ pc = "req_post"
    /\ \E eff \in HookEffectsOn(script_keys), outcome \in HookOutcomes :
         LET r == execute_script(has_pos_script, current_vars, eff, outcome)
             g == IF r.env_changed
                  THEN MergeBack(global_env_vars, r.env) ELSE global_env_vars
         IN
         /\ current_vars' = r.env
         /\ global_env_vars' = g
         /\ env_file' = IF r.env_changed
                        THEN write_environment_file(g) ELSE env_file
         /\ env_writes' = SavesAfterHook(r.env_changed)
         /\ post_script_error' = r.script_failed
         /\ post_assertion_error' = r.assertion_error
    /\ trace' = Append(trace, Event(idx, "req_post"))
    /\ pc' = "classify"
    /\ UNCHANGED << pre_requests, diskVars, compVars >>
    /\ UNCHANGED << n, idx, results, failed_files, request_success,
                    script_error, has_pos_script, response, last_response,
                    folder_vars, classified, cpos_args, raised, err_paths,
                    execution_failed, exit_code >>

\* Lines 611-642.
Classify ==
    /\ pc = "classify"
    /\ LET c == ClassifyRequest(has_pos_script, post_assertion_error,
                                post_script_error, response.status,
                                request_success)
       IN /\ request_success' = c.request_success
          /\ results' = IF c.warning
                        THEN [results EXCEPT !.warnings = @ + 1] ELSE results
    /\ pc' = "tally"
    /\ env_writes' = 0
    /\ UNCHANGED << pre_requests, diskVars, compVars >>
    /\ UNCHANGED << n, idx, env_file, global_env_vars, current_vars,
                    failed_files, script_error, has_pos_script, response,
                    last_response, post_script_error, post_assertion_error,
                    folder_vars, trace, classified, cpos_args, raised,
                    err_paths, execution_failed, exit_code >>

\* Lines 648-652.
Tally ==
    /\ pc = "tally"
    /\ results' = TallyResults(results, request_success)
    /\ failed_files' = IF request_success
                       THEN failed_files ELSE Append(failed_files, idx)
    /\ classified' = Append(classified,
                            [file |-> idx, success |-> request_success,
                             answered |-> response # NoResponse])
    /\ trace' = Append(trace, Event(idx, "classified"))
    /\ pc' = "loop"
    /\ env_writes' = 0
    /\ UNCHANGED << pre_requests, diskVars, compVars >>
    /\ UNCHANGED << n, idx, env_file, global_env_vars, current_vars,
                    request_success, script_error, has_pos_script, response,
                    last_response, post_script_error, post_assertion_error,
                    folder_vars, cpos_args, raised, err_paths, execution_failed, exit_code >>

\* Lines 654-661.
CollectionPosScript ==
    /\ pc = "loop"
    /\ idx >= n
    /\ \E exists \in BOOLEAN, eff \in HookEffectsOn(script_keys), outcome \in HookOutcomes :
         LET r == execute_script(exists, global_env_vars, eff, outcome) IN
         /\ global_env_vars' = r.env
         /\ env_file' = IF r.env_changed
                        THEN write_environment_file(r.env) ELSE env_file
         /\ env_writes' = SavesAfterHook(r.env_changed)
         /\ trace' = IF exists
                     THEN Append(trace, Event(0, "collection_pos")) ELSE trace
         /\ cpos_args' = IF exists
                         THEN [called |-> TRUE, env |-> global_env_vars,
                               response |-> last_response]
                         ELSE cpos_args
    /\ pc' = "summary"
    /\ UNCHANGED << pre_requests, diskVars, compVars >>
    /\ UNCHANGED << n, idx, current_vars, results, failed_files,
                    request_success, script_error, has_pos_script, response,
                    last_response, post_script_error, post_assertion_error,
                    folder_vars, classified, raised, err_paths, execution_failed, exit_code >>

\* Lines 663-682: the summary, then the aggregate Exception when a request
\* failed.
FinishRun ==
    /\ pc = "summary"
    /\ LET e == AggregateError(results, failed_files) IN
         /\ raised' = e.raise
         /\ err_paths' = e.paths
    /\ pc' = "returned"
    /\ env_writes' = 0
    /\ UNCHANGED << pre_requests, diskVars, compVars >>
    /\ UNCHANGED << n, idx, env_file, global_env_vars, current_vars, results,
                    failed_files, request_success, script_error,
                    has_pos_script, response, last_response,
                    post_script_error, post_assertion_error, folder_vars,
                    trace, classified, cpos_args, execution_failed, exit_code >>

\* pyman.py 139-184: execution_failed is set by the except clause; building
\* the HTML report exits with 1 when it fails; otherwise the exit status
\* follows execution_failed (falling off main is status 0).
ExitStatus(failed, report_ok) ==
    IF ~report_ok THEN 1 ELSE IF failed THEN 1 ELSE 0

HandleRunCommand ==
    /\ pc = "returned"
    /\ execution_failed' = raised
    /\ \E report_ok \in BOOLEAN :
         exit_code' = ExitStatus(execution_failed', report_ok)
    /\ pc' = "exited"
    /\ env_writes' = 0
    /\ UNCHANGED << pre_requests, diskVars, compVars >>
    /\ UNCHANGED << n, idx, env_file, global_env_vars, current_vars, results,
                    failed_files, request_success, script_error,
                    has_pos_script, response, last_response,
                    post_script_error, post_assertion_error, folder_vars,
                    trace, classified, cpos_args, raised, err_paths >>

Next ==
    \/ CollectionPreScript
    \/ BeginRequest
    \/ ParseRequest
    \/ RequestPreScript
    \/ ExecuteRequest
    \/ RequestPostScript
    \/ Classify
    \/ Tally
    \/ CollectionPosScript
    \/ FinishRun
    \/ HandleRunCommand

Spec == Init /\ [][Next]_vars

SpecReserved == InitReserved /\ [][Next]_vars

SpecDeps == InitDeps /\ [][Next]_vars

\* The run variables of a collection that is not being run.
RunIdle ==
    /\ n = 1
    /\ env_file = EmptyEnv
    /\ script_keys = {}
    /\ pre_requests_of = [f \in 1..n |-> {}]
    /\ RunStart

\* ---------------------------------- the environment file as lines of text
\* A string is a sequence of one-character strings, a file a sequence of
\* lines (without their newline), a dict a sequence of << key, value >>
\* pairs in insertion order.

MaxValueLen == 3

ValueChars == {"a", " ", "\"", "'", "#", "="}

RawValues == UNION { [1..m -> ValueChars] : m \in 0..MaxValueLen }

\* What stands left of the first '=' in the lines of the files tried.
RawKeys == { <<"K">>, <<"_", "K">>, <<" ", "K", " ">>, <<"#", "K">>, << >> }

FileLines ==
    { k \o <<"=">> \o v : k \in RawKeys, v \in RawValues }
        \cup { << >>, <<"K">> }

\* Second lines tried after a first one: the same key again, another key.
SecondLines ==
    { <<"K", "=", "a">>, <<"_", "K", "=", "a">>, <<"L", "=", "\"", " ", "\"">> }

StoreFiles ==
    { << l >> : l \in FileLines }
        \cup { << l1, l2 >> : l1 \in { k \o <<"=", "'", "a", "'">> : k \in RawKeys },
                               l2 \in SecondLines }

RECURSIVE LStrip(_)
LStrip(str) ==
    IF str = << >> THEN str
    ELSE IF Head(str) = " " THEN LStrip(Tail(str)) ELSE str

RECURSIVE RStrip(_)
RStrip(str) ==
    IF str = << >> THEN str
    ELSE IF str[Len(str)] = " " THEN RStrip(SubSeq(str, 1, Len(str) - 1))
    ELSE str

\* str.strip()
Strip(str) == RStrip(LStrip(str))

StartsWith(str, c) == Len(str) > 0 /\ str[1] = c

EndsWith(str, c) == Len(str) > 0 /\ str[Len(str)] = c

\* Position of the first '=' (0 when there is none).
FirstEq(str) ==
    LET P == { i \in 1..Len(str) : str[i] = "=" }
    IN IF P = {} THEN 0 ELSE CHOOSE i \in P : \A j \in P : i <= j

\* Lines 181-184: value[1:-1] when the value starts and ends with the same
\* quote character (a value that is one quote character becomes empty).
Unquote(value) ==
    IF \/ StartsWith(value, "\"") /\ EndsWith(value, "\"")
       \/ StartsWith(value, "'") /\ EndsWith(value, "'")
    THEN SubSeq(value, 2, Len(value) - 1)
    ELSE value

\* dict[key] = value
DictSet(d, key, value) ==
    IF \E i \in 1..Len(d) : d[i][1] = key
    THEN [i \in 1..Len(d) |-> IF d[i][1] = key THEN << key, value >> ELSE d[i]]
    ELSE Append(d, << key, value >>)

DictKeys(d) == { d[i][1] : i \in 1..Len(d) }

DictGet(d, key) == (CHOOSE i \in 1..Len(d) : d[i][1] = key)

\* Lines 177-185: what one line of the file adds to env_vars.
LoadLine(d, raw) ==
    LET line == Strip(raw)
        eq == FirstEq(line)
    IN IF line # << >> /\ ~StartsWith(line, "#") /\ eq > 0
       THEN DictSet(d, Strip(SubSeq(line, 1, eq - 1)),
                    Strip(Unquote(SubSeq(line, eq + 1, Len(line)))))
       ELSE d

RECURSIVE LoadLines(_, _)
LoadLines(d, lines) ==
    IF lines = << >> THEN d
    ELSE LoadLines(LoadLine(d, Head(lines)), Tail(lines))

\* Lines 171-191 on the text of the file.
load_environment_text(lines) == LoadLines(<< >>, lines)

\* Line 205: re.search(r'[\s#"\']', value)
NeedsQuotes(value) ==
    \E i \in 1..Len(value) : value[i] \in {" ", "#", "\"", "'"}

\* Variant: every value written bare, as key=value.
FormatLine_NeverQuoted(key, value) == key \o <<"=">> \o value

\* Lines 205-208.
FormatLine(key, value) ==
    IF NeedsQuotes(value)
    THEN key \o <<"=", "\"">> \o value \o <<"\"">>
    ELSE key \o <<"=">> \o value

\* Line 200 on a key given as text.
IsReservedText(key) == StartsWith(key, "_")

\* Lines 199-208 on the text of the file.
write_environment_text(d) ==
    LET clean == SelectSeq(d, LAMBDA kv : ~IsReservedText(kv[1]))
    IN [i \in 1..Len(clean) |-> FormatLine(clean[i][1], clean[i][2])]

InitStore ==
    /\ RunIdle
    /\ hk = [pc |-> "idle"]
    /\ sb = [pc |-> "idle"]
    /\ xr = [pc |-> "idle"]
    /\ \E f \in StoreFiles :
         st = [pc |-> "load", file |-> f, loaded |-> << >>, reloaded |-> << >>]

\* load_environment on the file found on disk.
StoreLoad ==
    /\ st.pc = "load"
    /\ st' = [st EXCEPT !.pc = "write",
                        !.loaded = load_environment_text(st.file)]
    /\ UNCHANGED << runVars, hk, sb, xr >>

\* write_environment_file of what was loaded.
StoreWrite ==
    /\ st.pc = "write"
    /\ st' = [st EXCEPT !.pc = "reload",
                        !.file = write_environment_text(st.loaded)]
    /\ UNCHANGED << runVars, hk, sb, xr >>

\* load_environment on the rewritten file (the next run).
StoreReload ==
    /\ st.pc = "reload"
    /\ st' = [st EXCEPT !.pc = "done",
                        !.reloaded = load_environment_text(st.file)]
    /\ UNCHANGED << runVars, hk, sb, xr >>

NextStore == StoreLoad \/ StoreWrite \/ StoreReload

SpecStore == InitStore /\ [][NextStore]_vars

\* ------------------------------ write_environment_file, one step at a time

\* The dicts handed to write_environment_file: one or two keys.
SavedValues == { <<"a">>, <<"a", " ", "b">>, << >> }

SavedDicts ==
    { << << <<"K">>, v >> >> : v \in SavedValues }
        \cup { << << <<"L">>, v >> >> : v \in SavedValues }
        \cup { << << <<"K">>, v >>, << <<"L">>, w >> >> :
                    v \in SavedValues, w \in SavedValues }
        \cup { << << <<"_", "K">>, v >>, << <<"K">>, w >> >> :
                    v \in SavedValues, w \in SavedValues }

\* What the file holds before the call.
OldFiles == { << >>, << <<"K", "=", "a">> >>,
              << <<"K", "=", "b">>, <<"L", "=", "a">> >> }

InitSave ==
    /\ RunIdle
    /\ hk = [pc |-> "idle"]
    /\ sb = [pc |-> "idle"]
    /\ xr = [pc |-> "idle"]
    /\ \E old \in OldFiles, d \in SavedDicts :
         st = [pc |-> "open", old |-> old, env |-> d, file |-> old,
               lines |-> << >>, written |-> 0]

\* Lines 200-202: clean_vars is computed and open(env_file, 'w') truncates
\* the file.
SaveOpen ==
    /\ st.pc = "open"
    /\ st' = [st EXCEPT !.pc = "writing",
                        !.lines = write_environment_text(st.env),
                        !.file = << >>,
                        !.written = 0]
    /\ UNCHANGED << runVars, hk, sb, xr >>

\* Lines 203-208: one f.write per key.
SaveWriteLine ==
    /\ st.pc = "writing"
    /\ st.written < Len(st.lines)
    /\ st' = [st EXCEPT !.written = @ + 1,
                        !.file = Append(@, st.lines[st.written + 1])]
    /\ UNCHANGED << runVars, hk, sb, xr >>

\* The with block is left and the file closed.
SaveClose ==
    /\ st.pc = "writing"
    /\ st.written = Len(st.lines)
    /\ st' = [st EXCEPT !.pc = "closed"]
    /\ UNCHANGED << runVars, hk, sb, xr >>

\* The process is interrupted.  Before the open the file is untouched; after
\* it, any prefix of the lines written so far may have reached the disk (the
\* stream is buffered).
SaveCrash ==
    /\ st.pc \in {"open", "writing"}
    /\ \E k \in 0..st.written :
         st' = [st EXCEPT !.pc = "crashed",
                          !.file = IF st.pc = "open" THEN st.old
                                   ELSE SubSeq(st.file, 1, k)]
    /\ UNCHANGED << runVars, hk, sb, xr >>

NextSave == SaveOpen \/ SaveWriteLine \/ SaveClose \/ SaveCrash

SpecSave == InitSave /\ [][NextSave]_vars

\* ------------------------------------------- execute_script on its own

\* The dicts a hook may be handed.
HookEnvs == [Keys -> {NoVal, "g", "h"}]

NoHookResult ==
    [env |-> EmptyEnv, env_changed |-> FALSE, script_failed |-> FALSE,
     assertion_error |-> FALSE]

InitHook ==
    /\ RunIdle
    /\ st = [pc |-> "idle"]
    /\ sb = [pc |-> "idle"]
    /\ xr = [pc |-> "idle"]
    /\ \E exists \in BOOLEAN, env \in HookEnvs,
          eff \in HookEffectsOn(HookKeysReserved), outcome \in HookOutcomes :
         hk = [pc |-> "call", exists |-> exists, env |-> env, eff |-> eff,
               outcome |-> outcome, result |-> NoHookResult]

\* Lines 274-345: one call of execute_script.
ExecuteScriptCall ==
    /\ hk.pc = "call"
    /\ hk' = [hk EXCEPT !.pc = "done",
                        !.result = execute_script(hk.exists, hk.env, hk.eff,
                                                  hk.outcome)]
    /\ UNCHANGED << runVars, st, sb, xr >>

NextHook == ExecuteScriptCall

SpecHook == InitHook /\ [][NextHook]_vars


\* ----------------------------------- substitute_variables on its own

\* A text is put together from at most this many pieces.
MaxSegments == 2

\* A Python value: its type and what str() makes of it.
PyStr(chars) == [t |-> "str", s |-> chars]

PyInt(chars) == [t |-> "int", s |-> chars]

PyAbsent == [t |-> "absent", s |-> << >>]

OpenBraces == <<"{", "{">>

CloseBraces == <<"}", "}">>

PmPrefix == <<"p", "m", ".">>

NameX == <<"x">>

NameY == <<"y">>

NameZ == <<"z">>

NamePmX == <<"p", "m", ".", "x">>

\* A call of a helper function, such as pm.timestamp().
HelperCall == <<"p", "m", ".", "t", "(", ")">>

Reference(pad, name) ==
    [kind |-> "ref", name |-> name,
     text |-> OpenBraces \o pad \o name \o pad \o CloseBraces]

\* The pieces of a text: plain text, references to variables, a helper call,
\* stray braces, a pair of braces around a line break.
Segments ==
    { [kind |-> "lit", name |-> << >>, text |-> <<"a">>],
      Reference(<< >>, NameX), Reference(<<" ">>, NameX),
      Reference(<< >>, NameY), Reference(<< >>, NameZ),
      Reference(<< >>, NamePmX),
      [kind |-> "call", name |-> HelperCall,
       text |-> OpenBraces \o HelperCall \o CloseBraces],
      [kind |-> "other", name |-> << >>, text |-> OpenBraces],
      [kind |-> "other", name |-> << >>, text |-> <<"}">>],
      [kind |-> "other", name |-> << >>,
       text |-> OpenBraces \o <<"x", "\n">> \o CloseBraces] }

SegmentLists == UNION { [1..k -> Segments] : k \in 0..MaxSegments }

RECURSIVE Flatten(_)
Flatten(segs) ==
    IF segs = << >> THEN << >> ELSE Head(segs).text \o Flatten(Tail(segs))

\* The variables dict: NameZ is never a key.
VarNames == {NameX, NameY, NamePmX}

VariableDicts ==
    { [k \in VarNames |-> IF k = NameX THEN vx ELSE IF k = NameY THEN vy ELSE vp] :
        vx \in { PyAbsent, PyStr(<<"1">>), PyInt(<<"7">>),
                 PyStr(OpenBraces \o NameY \o CloseBraces),
                 PyStr(OpenBraces \o HelperCall \o CloseBraces) },
        vy \in { PyAbsent, PyStr(<<"2">>) },
        vp \in { PyAbsent, PyStr(<<"3">>) } }

\* What eval gives for the helper call: a value, or an exception.
HelperOutcomes ==
    { [raised |-> TRUE, value |-> PyAbsent],
      [raised |-> FALSE, value |-> PyStr(<<"r">>)],
      [raised |-> FALSE, value |-> PyStr(OpenBraces \o NameY \o CloseBraces)] }

HasPrefix(str, pre) ==
    Len(str) >= Len(pre) /\ SubSeq(str, 1, Len(pre)) = pre

IsAt(text, i, two) ==
    i >= 1 /\ i + 1 <= Len(text) /\ text[i] = two[1] /\ text[i + 1] = two[2]

\* Where "}}" can end a match of VAR_REGEX that starts at i: '.' matches
\* every character but a line break.
MatchEnds(text, i) ==
    { q \in (i + 2)..(Len(text) - 1) :
        /\ IsAt(text, q, CloseBraces)
        /\ \A k \in (i + 2)..(q - 1) : text[k] # "\n" }

MatchClose_Greedy(text, i) ==
    IF ~IsAt(text, i, OpenBraces) \/ MatchEnds(text, i) = {} THEN 0
    ELSE CHOOSE q \in MatchEnds(text, i) : \A r \in MatchEnds(text, i) : q >= r

\* VAR_REGEX tried at position i: the position of the closing "}}" of the
\* match (.*? takes the nearest one), 0 when there is no match at i.
MatchClose(text, i) ==
    IF ~IsAt(text, i, OpenBraces) \/ MatchEnds(text, i) = {} THEN 0
    ELSE CHOOSE q \in MatchEnds(text, i) : \A r \in MatchEnds(text, i) : q <= r

\* variables.get(expression, default)
VarGet(variables, expression, default) ==
    IF expression \in DOMAIN variables /\ variables[expression].t # "absent"
    THEN variables[expression]
    ELSE PyStr(default)

\* eval(expression, {'pm': pm_instance}): the helper call gives its outcome,
\* any other attribute of pm is missing.
EvalHelper(expression, helper) ==
    IF expression = HelperCall THEN helper
    ELSE [raised |-> TRUE, value |-> PyAbsent]

\* Lines 244-257: group0 is the whole match, group1 the text in the braces.
replace_match(group0, group1, variables, helper) ==
    LET expression == Strip(group1)
    IN  IF HasPrefix(expression, PmPrefix)
        THEN IF EvalHelper(expression, helper).raised THEN group0
             ELSE EvalHelper(expression, helper).value.s
        ELSE VarGet(variables, expression, group0).s

\* VAR_REGEX.sub: the matches are found from left to right, none overlaps
\* another, and what replaces a match is not scanned.
RECURSIVE SubFrom(_, _, _, _)
SubFrom(text, i, variables, helper) ==
    IF i > Len(text) THEN << >>
    ELSE LET q == MatchClose(text, i)
         IN  IF q = 0
             THEN << text[i] >> \o SubFrom(text, i + 1, variables, helper)
             ELSE replace_match(SubSeq(text, i, q + 1),
                                SubSeq(text, i + 2, q - 1), variables, helper)
                      \o SubFrom(text, q + 2, variables, helper)

substitute_variables_Rescanned(text, variables, helper) ==
    IF text.t # "str" THEN text
    ELSE PyStr(SubFrom(SubFrom(text.s, 1, variables, helper), 1, variables,
                       helper))

\* Lines 239-260.
substitute_variables(text, variables, helper) ==
    IF text.t # "str" THEN text
    ELSE PyStr(SubFrom(text.s, 1, variables, helper))

InitSubst ==
    /\ RunIdle
    /\ hk = [pc |-> "idle"]
    /\ st = [pc |-> "idle"]
    /\ xr = [pc |-> "idle"]
    /\ \E segs \in SegmentLists, isstr \in BOOLEAN,
          variables \in VariableDicts, helper \in HelperOutcomes :
         /\ ~isstr => segs = << >>
         /\ sb = [pc |-> "call", segs |-> segs,
                  text |-> IF isstr THEN PyStr(Flatten(segs))
                           ELSE PyInt(<<"5">>),
                  variables |-> variables, helper |-> helper,
                  out |-> PyAbsent]

SubstituteCall ==
    /\ sb.pc = "call"
    /\ sb' = [sb EXCEPT !.pc = "done",
                        !.out = substitute_variables(sb.text, sb.variables,
                                                     sb.helper)]
    /\ UNCHANGED << runVars, hk, st, xr >>

NextSubst == SubstituteCall

SpecSubst == InitSubst /\ [][NextSubst]_vars


\* ------------------------- execute_request: the templates of a descriptor

\* Where a template string stands in the descriptor.
Places == {"url", "headers", "auth", "body", "params", "multipart_text",
           "multipart_src"}

\* Lines 351-355: every string of the descriptor goes through
\* substitute_variables; line 431 then hands str() of a multipart text field
\* to substitute_variables, line 400 the 'src' of a multipart file field.
ResolvedAt(place, text, variables, helper) ==
    LET first == substitute_variables(text, variables, helper)
    IN  IF place = "multipart_text"
        THEN substitute_variables(PyStr(first.s), variables, helper)
        ELSE IF place = "multipart_src"
        THEN substitute_variables(first, variables, helper)
        ELSE first

InitResolve ==
    /\ RunIdle
    /\ hk = [pc |-> "idle"]
    /\ st = [pc |-> "idle"]
    /\ xr = [pc |-> "idle"]
    /\ \E segs \in SegmentLists, isstr \in BOOLEAN, place \in Places,
          variables \in VariableDicts, helper \in HelperOutcomes :
         /\ ~isstr => segs = << >>
         /\ sb = [pc |-> "build", place |-> place, segs |-> segs,
                  text |-> IF isstr THEN PyStr(Flatten(segs))
                           ELSE PyInt(<<"5">>),
                  variables |-> variables, helper |-> helper,
                  out |-> PyAbsent]

\* The value that reaches requests.request for the template.
ResolveTemplate ==
    /\ sb.pc = "build"
    /\ sb' = [sb EXCEPT !.pc = "dispatched",
                        !.out = ResolvedAt(sb.place, sb.text, sb.variables,
                                           sb.helper)]
    /\ UNCHANGED << runVars, hk, st, xr >>

NextResolve == ResolveTemplate

SpecResolve == InitResolve /\ [][NextResolve]_vars

\* -------------------------------------- execute_request on its own

\* A multipart body has at most this many fields.
MaxFields == 2

Methods == {"GET", "POST"}

\* The values of a declared Content-Type header ("" when it is not declared).
ContentTypes ==
    {"multipart/form-data", "Multipart/Form-Data", "application/json",
     "application/x-www-form-urlencoded", "text/xml"}

\* str.lower()
Lower(value) ==
    IF value = "Multipart/Form-Data" THEN "multipart/form-data" ELSE value

HeaderKeys == {"Content-Type", "content-type"}

NoHeaders == [k \in HeaderKeys |-> ""]

\* The headers of the descriptor: no content type, or one under either
\* spelling of the key.
DeclaredHeaders ==
    {NoHeaders} \cup { [NoHeaders EXCEPT ![k] = v] :
                          k \in HeaderKeys, v \in ContentTypes }

\* What the request file says about its body: no 'body' key, 'body: null',
\* a string, a mapping, a list.
BodyShapes == {"absent", "null", "str", "map", "list"}

\* request_parser.py line 64: data.get('body', '').
ParsedBody(shape) == IF shape = "absent" THEN "str" ELSE shape

TextField ==
    [type |-> "text", src |-> "none", in_files |-> FALSE, in_dir |-> FALSE,
     in_root |-> FALSE, at_abs |-> FALSE, readable |-> FALSE]

\* A file field: its 'src' is not a string ("bad"), an absolute path or a
\* relative one; where the file exists; whether open() succeeds on it.
FileFields ==
    { f \in [type : {"file"}, src : {"bad", "abs", "rel"},
             in_files : BOOLEAN, in_dir : BOOLEAN, in_root : BOOLEAN,
             at_abs : BOOLEAN, readable : BOOLEAN] :
        /\ f.src # "rel" => ~f.in_files /\ ~f.in_dir /\ ~f.in_root
        /\ f.src # "abs" => ~f.at_abs
        /\ f.readable => (f.in_files \/ f.in_dir \/ f.in_root \/ f.at_abs) }

Fields == {TextField} \cup FileFields

Bodies == UNION { [1..k -> Fields] : k \in 0..MaxFields }

\* What requests.request does: it returns a response, raises a
\* RequestException, or raises another Exception.
DispatchOutcomes == {"response", "request_exception", "exception"}

ResolvePath_RootFirst(f) ==
    IF f.src = "abs" THEN "abs"
    ELSE IF f.in_root THEN "root"
    ELSE IF f.in_dir THEN "dir"
    ELSE IF f.in_files THEN "files"
    ELSE "none"

\* Lines 402-420: final_path.
ResolvePath(f) ==
    IF f.src = "abs" THEN "abs"
    ELSE IF f.in_files THEN "files"
    ELSE IF f.in_dir THEN "dir"
    ELSE IF f.in_root THEN "root"
    ELSE "none"

FieldOutcome_MissingRaises(f) ==
    IF f.type # "file" THEN "text"
    ELSE IF f.src = "bad" THEN "raises"
    ELSE IF ResolvePath(f) = "none" THEN "raises"
    ELSE IF ResolvePath(f) = "abs" /\ ~f.at_abs THEN "raises"
    ELSE IF f.readable THEN "attached"
    ELSE "raises"

\* Lines 398-431: what one round of the loop does with a field.
FieldOutcome(f) ==
    IF f.type # "file" THEN "text"
    ELSE IF f.src = "bad" THEN "raises"
    ELSE IF ResolvePath(f) = "none" THEN "skipped"
    ELSE IF ResolvePath(f) = "abs" /\ ~f.at_abs THEN "skipped"
    ELSE IF f.readable THEN "attached"
    ELSE "skipped"

\* Line 385 to 449: the branch taken for a body and a content type.
BodyBranch(method, body, content_type) ==
    IF body = "null" THEN "none"
    ELSE IF body = "map" /\ content_type = "multipart/form-data" THEN "multipart"
    ELSE IF body = "str" THEN "raw"
    ELSE IF body = "map"
         THEN IF content_type = "application/x-www-form-urlencoded"
              THEN "form" ELSE "json"
    ELSE "ignored"

\* Lines 438-439 and 446-447: the Content-Type the branch sets.
HeadersAfter(branch, headers, content_type) ==
    IF branch = "raw" /\ content_type = ""
    THEN [headers EXCEPT !["Content-Type"] = "text/plain"]
    ELSE IF branch = "json" /\ content_type # "application/json"
    THEN [headers EXCEPT !["Content-Type"] = "application/json"]
    ELSE headers

InitRequest ==
    /\ RunIdle
    /\ hk = [pc |-> "idle"]
    /\ st = [pc |-> "idle"]
    /\ sb = [pc |-> "idle"]
    /\ \E method \in Methods, declared \in DeclaredHeaders,
          shape \in BodyShapes, body \in Bodies :
         /\ body # << >> =>
              /\ shape = "map"
              /\ Lower(declared["Content-Type"]) = "multipart/form-data"
         /\ xr = [pc |-> "body", method |-> method, declared |-> declared,
                  headers |-> declared, shape |-> shape, body |-> body,
                  branch |-> "unset", field |-> 1, files |-> {},
                  opened |-> {}, data |-> {}, resolved |-> {},
                  answered |-> FALSE]

\* Lines 382-395 and 436-449: the body is looked at and, unless it is
\* multipart, the payload and the Content-Type header are set.
PrepareBody ==
    /\ xr.pc = "body"
    /\ LET content_type == Lower(xr.headers["Content-Type"])
           branch == BodyBranch(xr.method, ParsedBody(xr.shape), content_type)
       IN  xr' = [xr EXCEPT
                    !.branch = branch,
                    !.headers = HeadersAfter(branch, @, content_type),
                    !.pc = IF branch = "multipart" THEN "build" ELSE "ready"]
    /\ UNCHANGED << runVars, hk, st, sb >>

\* Lines 397-431: one round of the loop over body.items().  files holds the
\* fields with a handle in the files dict, opened the handles that are open,
\* data the fields of data_payload, resolved the final_path of file fields.
BuildField ==
    /\ xr.pc = "build"
    /\ xr.field <= Len(xr.body)
    /\ LET f == xr.body[xr.field]
           outcome == FieldOutcome(f)
       IN  xr' = IF outcome = "raises"
                 THEN [xr EXCEPT !.pc = "raised"]
                 ELSE [xr EXCEPT
                         !.field = @ + 1,
                         !.files = IF outcome = "attached"
                                   THEN @ \cup {xr.field} ELSE @,
                         !.opened = IF outcome = "attached"
                                    THEN @ \cup {xr.field} ELSE @,
                         !.resolved = IF outcome = "attached"
                                      THEN @ \cup {<<xr.field, ResolvePath(f)>>}
                                      ELSE @,
                         !.data = IF outcome = "text"
                                  THEN @ \cup {xr.field} ELSE @]
    /\ UNCHANGED << runVars, hk, st, sb >>

\* Lines 433-435: data = data_payload and the Content-Type header is
\* deleted.
FinishMultipart ==
    /\ xr.pc = "build"
    /\ xr.field > Len(xr.body)
    /\ xr' = [xr EXCEPT !.pc = "ready", !.headers["Content-Type"] = ""]
    /\ UNCHANGED << runVars, hk, st, sb >>

\* Lines 451-514: the try block with its handlers and its finally block.
DispatchRequest ==
    /\ xr.pc = "ready"
    /\ \E outcome \in DispatchOutcomes :
         xr' = [xr EXCEPT !.pc = "close", !.answered = outcome = "response"]
    /\ UNCHANGED << runVars, hk, st, sb >>

\* Lines 516-523: every handle of the files dict is closed and the response
\* returned.
CloseFiles ==
    /\ xr.pc = "close"
    /\ xr' = [xr EXCEPT !.pc = "returned", !.opened = @ \ xr.files]
    /\ UNCHANGED << runVars, hk, st, sb >>

NextRequest ==
    PrepareBody \/ BuildField \/ FinishMultipart \/ DispatchRequest \/ CloseFiles

SpecRequest == InitRequest /\ [][NextRequest]_vars


\* ============================================================ properties

\* The post-hook stage of the current request has run (execute_request
\* returned and execute_script was called for the post-hook).
PostStageRan ==
    /\ Len(trace) > 0
    /\ trace[Len(trace)] = Event(idx, "req_post")

\* The step that adds the current request to the counters.
TallyStep == pc = "tally" /\ pc' = "loop"

CountedSuccess ==
    /\ results'.success = results.success + 1
    /\ results'.failure = results.failure
    /\ failed_files' = failed_files
    /\ \A i \in 1..Len(failed_files') : failed_files'[i] # idx

CountedFailure ==
    /\ results'.failure = results.failure + 1
    /\ results'.success = results.success
    /\ failed_files' = Append(failed_files, idx)

\* C1: a parsed request without post-hook whose pre-hook raised nothing and
\* whose response status s has 0 < s < 400 is counted as a success and not
\* as a failure, and its path is not in failed_files.
C1_SuccessBelow400 ==
    [][ ( /\ TallyStep
          /\ PostStageRan
          /\ ~has_pos_script
          /\ ~script_error
          /\ response.status > 0
          /\ response.status < 400 )
        => CountedSuccess ]_vars

\* C2: a request without post-hook whose response status is in 400..499
\* increments the warning counter, leaves the failure counter unchanged and
\* is not added to failed_files (stated for requests whose pre-hook raised
\* nothing).
C2_WarningOn4xx ==
    [][ /\ ( /\ pc = "classify"
             /\ ~has_pos_script
             /\ response.status >= 400
             /\ response.status < 500 )
           => results'.warnings = results.warnings + 1
        /\ ( /\ TallyStep
             /\ PostStageRan
             /\ ~has_pos_script
             /\ ~script_error
             /\ response.status >= 400
             /\ response.status < 500 )
           => /\ results'.failure = results.failure
              /\ failed_files' = failed_files ]_vars

\* C3: a request without post-hook whose response status is >= 500 adds
\* exactly one to the failure counter, has its path appended to
\* failed_files, and changes neither the success nor the warning counter.
C3_FailureOn5xx ==
    [][ ( /\ pc \in {"req_post", "classify", "tally"}
          /\ ~has_pos_script
          /\ response.status >= 500 )
        => /\ results'.success = results.success
           /\ results'.warnings = results.warnings
           /\ results'.total = results.total
           /\ IF pc = "tally"
              THEN CountedFailure
              ELSE /\ results'.failure = results.failure
                   /\ failed_files' = failed_files ]_vars

\* C3 witness: request idx, without post-hook and answered with a 5xx, has
\* just been tallied as the first failure of the run.
C3_Witness ==
    /\ pc = "loop"
    /\ idx >= 1
    /\ ~has_pos_script
    /\ response.status >= 500
    /\ results.failure = 1
    /\ results.success = 0
    /\ results.warnings = 0
    /\ failed_files = << idx >>

\* C4 as stated: with a post-hook, the request is a success when the
\* post-hook raised nothing, whatever the status, and a failure when the
\* post-hook raised an assertion failure or another exception.
C4_PostHookDecides ==
    [][ ( /\ TallyStep
          /\ PostStageRan
          /\ has_pos_script
          /\ response.status > 0 )
        => /\ ~post_script_error => CountedSuccess
           /\ post_script_error => CountedFailure ]_vars

\* C4 amended: with a post-hook and a response obtained, the request is a
\* success when neither its pre-hook nor its post-hook raised, whatever the
\* status (4xx and 5xx included), and a failure whenever the post-hook
\* raised an assertion failure or another exception, status 200 included.
C4_PostHookDecidesAfterCleanPre ==
    [][ ( /\ TallyStep
          /\ PostStageRan
          /\ has_pos_script
          /\ response.status > 0 )
        => /\ (~post_script_error /\ ~script_error) => CountedSuccess
           /\ post_script_error => CountedFailure ]_vars

\* C4 witness: a request answered 500 whose post-hook passed has been
\* tallied as a success.
C4_Witness ==
    /\ pc = "loop"
    /\ idx >= 1
    /\ has_pos_script
    /\ response.status = 500
    /\ ~post_script_error
    /\ ~script_error
    /\ Len(classified) = idx
    /\ classified[idx].success
    /\ results.success >= 1

\* C5: a request whose dispatch obtained no response has status 0 and is
\* counted as a failure, with or without a post-hook.
C5_NoResponseFails ==
    [][ ( /\ TallyStep
          /\ PostStageRan
          /\ response = NoResponse )
        => /\ response.status = 0
           /\ CountedFailure ]_vars


\* ----------------------------------------------------- run-level results

RunEnded == pc \in {"returned", "exited"}

\* Paths of the requests the ledger records as failed.
FailedPaths ==
    { classified[i].file : i \in { j \in 1..Len(classified) : ~classified[j].success } }

LoopDone == pc \in {"summary", "returned", "exited"}

\* C7: whatever errors the requests meet, the ledger holds one entry per
\* request file begun, in list order, each request is counted exactly once,
\* and when the loop is left every file of the list has been processed and
\* total equals the number of files.
C7_EveryFileProcessed ==
    /\ Len(classified) = IF pc \in {"parse", "req_pre", "dispatch", "req_post",
                                    "classify", "tally"}
                         THEN idx - 1 ELSE idx
    /\ \A i \in 1..Len(classified) : classified[i].file = i
    /\ results.success + results.failure = Len(classified)
    /\ results.total = idx
    /\ Len(failed_files) = results.failure
    /\ LoopDone =>
         /\ idx = n
         /\ results.total = n
         /\ Len(classified) = n

\* C7 witness: the first request failed on an exception raised while it was
\* parsed or built, and the run went on to classify a later request.
C7_Witness ==
    /\ LoopDone
    /\ n >= 2
    /\ ~classified[1].success
    /\ ~classified[1].answered
    /\ \E j \in 1..Len(trace) : trace[j] = Event(1, "classified")
                                 /\ trace[j - 1].stage \in {"parse", "dispatch"}
    /\ classified[n].success
    /\ results.total = n

\* ------------------------------------------------------ collection hooks

Positions(stage) == { j \in 1..Len(trace) : trace[j].stage = stage }

\* The request whose response is the most recent one obtained, 0 if none.
LatestAnswered ==
    LET A == { i \in 1..Len(classified) : classified[i].answered }
    IN IF A = {} THEN 0 ELSE CHOOSE i \in A : \A j \in A : j <= i

IsRequestStage(e) == e.req > 0

\* The stages that may come directly before a stage of the same request.
StageBefore(stage) ==
    CASE stage = "req_pre" -> {"parse"}
      [] stage = "dispatch" -> {"req_pre"}
      [] stage = "req_post" -> {"dispatch"}
      [] stage = "classified" -> {"parse", "dispatch", "req_post"}
      [] OTHER -> {}

\* C9: the stages of a request occur in the order parse, pre-hook,
\* dispatch, post-hook, classification, and every stage of request i comes
\* before any stage of request i+1: each stage after parse directly follows
\* its predecessor stage of the same request, and the parse of request i+1
\* directly follows the classification of request i.
C9_StageOrder ==
    \A j \in 1..Len(trace) :
      IsRequestStage(trace[j]) =>
        IF trace[j].stage = "parse"
        THEN \/ /\ trace[j].req = 1
                /\ \A k \in 1..(j - 1) : ~IsRequestStage(trace[k])
             \/ /\ j > 1
                /\ trace[j - 1] = Event(trace[j].req - 1, "classified")
        ELSE /\ j > 1
             /\ trace[j - 1].req = trace[j].req
             /\ trace[j - 1].stage \in StageBefore(trace[j].stage)

\* C9 witness: two requests went through all five stages, one after the
\* other.
C9_Witness ==
    /\ n >= 2
    /\ \E j \in 1..Len(trace) :
         /\ j + 9 <= Len(trace)
         /\ \A i \in 0..1 :
              /\ trace[j + 5 * i] = Event(i + 1, "parse")
              /\ trace[j + 5 * i + 1] = Event(i + 1, "req_pre")
              /\ trace[j + 5 * i + 2] = Event(i + 1, "dispatch")
              /\ trace[j + 5 * i + 3] = Event(i + 1, "req_post")
              /\ trace[j + 5 * i + 4] = Event(i + 1, "classified")

\* -------------------------------------------------------- folder overrides

\* C10: a value merged in from a folder config is never written to the
\* global environment nor to the environment file.
C10_FolderValuesStayLocal ==
    \A k \in Keys :
      /\ global_env_vars[k] # "f"
      /\ env_file[k] # "f"


\* ------------------------------------------------------ environment store

\* C11: after every save the environment file holds no reserved key,
\* whether the key was injected by the runner, set by a hook or loaded.
C11_NoReservedKeyPersisted ==
    [][ env_writes' > 0
        => \A k \in Keys : IsReserved(k) => env_file'[k] = NoVal ]_vars

\* C11 witness: a save has just been made while the environment holds the
\* injected root key and a '_'-prefixed key set by a hook or loaded, and
\* the file holds neither.
C11_Witness ==
    /\ env_writes = 1
    /\ global_env_vars[RootKey] # NoVal
    /\ global_env_vars[SessionKey] # NoVal
    /\ env_file[RootKey] = NoVal
    /\ env_file[SessionKey] = NoVal
    /\ env_file["TOKEN"] # NoVal


\* ------------------------------------------------------ mutation detection

HookRan == hk.pc = "done" /\ hk.exists

\* C12 as stated: a hook that never writes the environment yields
\* env_changed = FALSE and a hook that sets a key yields env_changed = TRUE.
C12_SetMeansChanged ==
    HookRan =>
      /\ hk.eff.op = "none" => ~hk.result.env_changed
      /\ hk.eff.op = "set" => hk.result.env_changed

\* C12 amended: a hook that never writes the environment yields
\* env_changed = FALSE; a hook that sets a key yields TRUE when the key was
\* absent or held another value, and FALSE when the key already held that
\* value (the comparison with the snapshot is by value).
C12_SetToNewValueMeansChanged ==
    HookRan =>
      /\ hk.eff.op = "none" => ~hk.result.env_changed
      /\ hk.eff.op = "set" =>
           (hk.result.env_changed <=> hk.env[hk.eff.key] # "h")

\* C12 witness: a hook added a key that was absent and then raised; the
\* call reported env_changed.
C12_Witness ==
    /\ HookRan
    /\ hk.eff.op = "set"
    /\ hk.env[hk.eff.key] = NoVal
    /\ hk.outcome = "error"
    /\ hk.result.env_changed
    /\ hk.result.env[hk.eff.key] = "h"


\* ------------------------------------------------------------ save policy

RequestHookStep == pc \in {"req_pre", "req_post"}

CollectionHookStep ==
    \/ pc = "collection_pre"
    \/ pc = "loop" /\ pc' = "summary"

\* The step ran a hook that left the dict it was handed different.
HookMutatedEnv ==
    \/ RequestHookStep /\ current_vars' # current_vars
    \/ CollectionHookStep /\ global_env_vars' # global_env_vars

\* C13: the environment file is written exactly once by a step whose hook
\* changed the environment and by no other step; without a write the file
\* keeps its content; a post-hook stage with no script changes nothing and
\* reports no error.
C13_SaveOnlyAfterMutation ==
    [][ /\ env_writes' = IF HookMutatedEnv THEN 1 ELSE 0
        /\ env_writes' = 0 => env_file' = env_file
        /\ (pc = "req_post" /\ ~has_pos_script)
           => /\ current_vars' = current_vars
              /\ global_env_vars' = global_env_vars
              /\ env_writes' = 0
              /\ ~post_script_error'
              /\ ~post_assertion_error' ]_vars

\* C13 witness: the pre-hook of a request has just set TOKEN, and the one
\* save that followed put it in the file.
C13_Witness ==
    /\ pc = "dispatch"
    /\ env_writes = 1
    /\ current_vars["TOKEN"] = "h"
    /\ env_file["TOKEN"] = "h"


\* --------------------------------------------------- persistence round trip

\* The dict seen as a mapping, without the order of insertion.
AsMapping(d) == { << d[i][1], d[i][2] >> : i \in 1..Len(d) }

\* C14 as stated: loading, saving and loading again yields the keys and
\* values of the first load.
C14_RoundTrip ==
    st.pc = "done" => AsMapping(st.reloaded) = AsMapping(st.loaded)

\* C14 amended: loading, saving and loading again yields the keys of the
\* first load that do not start with '_', each with the value of the first
\* load, and no other key.
C14_RoundTripOfUnreservedKeys ==
    st.pc = "done" =>
      AsMapping(st.reloaded)
        = { kv \in AsMapping(st.loaded) : ~IsReservedText(kv[1]) }

\* C14 witness: a value stored between quotes that itself holds a quote
\* came back unchanged from the second load.
C14_Witness ==
    /\ st.pc = "done"
    /\ << <<"K">>, <<"'">> >> \in AsMapping(st.loaded)
    /\ st.file = << <<"K", "=", "\"", "'", "\"">> >>
    /\ << <<"K">>, <<"'">> >> \in AsMapping(st.reloaded)


\* ----------------------------------------------------------- crash safety

\* C15: when the process is interrupted during write_environment_file, the
\* file holds the complete previous content or the complete new content.
C15_SaveIsCrashAtomic ==
    st.pc = "crashed" =>
      \/ st.file = st.old
      \/ st.file = write_environment_text(st.env)


\* ----------------------------------------------------------- substitution

\* The variable named by a reference is a key of the dict.
Known(variables, name) ==
    name \in DOMAIN variables /\ variables[name].t # "absent"

\* What a piece of the text is to become.
Expected(seg, variables, helper) ==
    IF seg.kind = "ref" /\ Known(variables, seg.name)
    THEN variables[seg.name].s
    ELSE IF seg.kind = "call" /\ ~helper.raised THEN helper.value.s
    ELSE seg.text

RECURSIVE ExpectedOut(_, _, _)
ExpectedOut(segs, variables, helper) ==
    IF segs = << >> THEN << >>
    ELSE Expected(Head(segs), variables, helper)
             \o ExpectedOut(Tail(segs), variables, helper)

SubstDone == sb.pc = "done" /\ sb.text.t = "str"

\* The text is made of plain text and of references to variables.
OnlyVariableReferences ==
    \A i \in 1..Len(sb.segs) : sb.segs[i].kind \in {"lit", "ref"}

PlainName(name) == ~HasPrefix(name, PmPrefix)

\* C16 as stated: in a text of plain text and {{name}} references, every
\* reference whose name is a key of the variables is replaced by the str()
\* of the value, and every other reference is kept as it is written.
C16_SubstitutionTotality ==
    (SubstDone /\ OnlyVariableReferences)
        => sb.out = PyStr(ExpectedOut(sb.segs, sb.variables, sb.helper))

\* C16: in a text of plain text and {{name}} references whose names do not
\* start with "pm.", every reference whose name is a key of the variables is
\* replaced by the str() of the value, and every other reference is kept as
\* it is written.
C16_SubstitutionTotalityOfPlainNames ==
    (/\ SubstDone
     /\ OnlyVariableReferences
     /\ \A i \in 1..Len(sb.segs) : PlainName(sb.segs[i].name))
        => sb.out = PyStr(ExpectedOut(sb.segs, sb.variables, sb.helper))

\* Two known references, one padded with blanks, and an unknown one between
\* texts were substituted.
C16_Witness ==
    /\ SubstDone
    /\ sb.segs = << Reference(<<" ">>, NameX), Reference(<< >>, NameZ) >>
    /\ sb.variables[NameX] = PyInt(<<"7">>)
    /\ sb.out = PyStr(<<"7">> \o OpenBraces \o NameZ \o CloseBraces)

\* The value of a reference of the text holds "{{".
ValueLooksLikeReference(seg) ==
    /\ seg.kind = "ref"
    /\ Known(sb.variables, seg.name)
    /\ \E k \in 1..Len(sb.variables[seg.name].s) :
         IsAt(sb.variables[seg.name].s, k, OpenBraces)

\* C17: when the value of a referenced variable holds {{y}} or a helper call
\* in braces, one call puts the value into the output as it is: the output
\* is the text with each reference replaced once, nothing inside a value or
\* a helper's result being replaced.
C17_NoDoubleSubstitution ==
    (/\ SubstDone
     /\ \A i \in 1..Len(sb.segs) :
          /\ sb.segs[i].kind \in {"lit", "ref", "call"}
          /\ sb.segs[i].kind = "ref" => PlainName(sb.segs[i].name)
     /\ \E i \in 1..Len(sb.segs) : ValueLooksLikeReference(sb.segs[i]))
        => sb.out = PyStr(ExpectedOut(sb.segs, sb.variables, sb.helper))

\* x holds {{y}}, y holds 2, and {{x}}{{y}} became {{y}}2.
C17_Witness ==
    /\ SubstDone
    /\ sb.segs = << Reference(<< >>, NameX), Reference(<< >>, NameY) >>
    /\ sb.variables[NameX] = PyStr(OpenBraces \o NameY \o CloseBraces)
    /\ sb.variables[NameY] = PyStr(<<"2">>)
    /\ sb.out = PyStr(OpenBraces \o NameY \o CloseBraces \o <<"2">>)


\* ----------------------------------------------------------- dependencies

\* Request file j has been handled by the loop before position p of the
\* trace.
ProcessedBefore(j, p) ==
    \E q \in 1..(p - 1) : trace[q] = Event(j, "classified")

\* C18: when a parsed request file enters its stages, every file of its
\* 'pre-requests' list has been processed already, and no file is executed
\* more than once in a run.
C18_DependenciesProcessedFirst ==
    /\ \A p \in 1..Len(trace) :
         trace[p].stage = "req_pre" =>
           \A j \in pre_requests_of[trace[p].req] : ProcessedBefore(j, p)
    /\ \A p, q \in 1..Len(trace) :
         (trace[p] = trace[q] /\ trace[p].stage = "dispatch") => p = q

\* The 'pre-requests' lists form a cycle.
CyclicDependencies ==
    \E f \in DOMAIN pre_requests_of :
        \E g \in pre_requests_of[f] :
            g \in DOMAIN pre_requests_of /\ f \in pre_requests_of[g]

\* C19: a run over request files whose 'pre-requests' lists form a cycle
\* ends with an error: run_collection raises and the process exits with a
\* status other than 0.
C19_CycleReported ==
    (pc = "exited" /\ CyclicDependencies) => (execution_failed /\ exit_code # 0)


\* ------------------------------------------------------- resource cleanup

\* C20: when execute_request is left, by its return or by an exception, no
\* file handle it opened for a multipart file field is still open.
C20_HandlesClosedOnEveryExit ==
    xr.pc \in {"returned", "raised"} => xr.opened = {}


\* ------------------------------------------------------------ body shapes

\* execute_request has looked at the body.
BodyPrepared == xr.pc \in {"build", "ready", "close", "returned", "raised"}

\* C21: a body is handled as multipart only when the method is POST, PUT or
\* PATCH.
C21_MultipartOnlyForBodyMethods ==
    (BodyPrepared /\ xr.branch = "multipart")
        => xr.method \in {"POST", "PUT", "PATCH"}

DeclaresContentType ==
    \E k \in HeaderKeys : xr.declared[k] # ""

AddedTextPlain ==
    /\ xr.headers["Content-Type"] = "text/plain"
    /\ xr.declared["Content-Type"] # "text/plain"

\* C22: Content-Type: text/plain is added exactly when the body is a raw
\* string and the descriptor declares no Content-Type, and a request file
\* without body is sent without body and without an added Content-Type.
C22_TextPlainOnlyForRawStrings ==
    (xr.pc \in {"ready", "close", "returned"})
        => /\ AddedTextPlain <=> (xr.shape = "str" /\ ~DeclaresContentType)
           /\ xr.shape = "absent" => (xr.branch = "none" /\ ~AddedTextPlain)

\* C23: a mapping that is not multipart is sent as JSON exactly when the
\* declared content type is unset or application/json, as a form otherwise,
\* and a declared Content-Type is left as it was.
C23_JsonOrForm ==
    (/\ xr.pc \in {"ready", "close", "returned"}
     /\ xr.shape = "map"
     /\ xr.branch # "multipart")
        => /\ xr.branch = "json"
                <=> Lower(xr.declared["Content-Type"]) \in {"", "application/json"}
           /\ xr.branch \in {"json", "form"}
           /\ xr.declared["Content-Type"] # ""
                => xr.headers["Content-Type"] = xr.declared["Content-Type"]

\* ------------------------------------------------------- multipart fields

\* First of the three places, in the order files subfolder, request
\* directory, collection root, where a relative reference exists.
FirstExisting(f) ==
    CHOOSE loc \in {"files", "dir", "root"} :
        /\ (loc = "files" => f.in_files)
        /\ (loc = "dir" => f.in_dir /\ ~f.in_files)
        /\ (loc = "root" => f.in_root /\ ~f.in_dir /\ ~f.in_files)

\* C24: the file attached for a relative reference is the one of the first
\* place where it exists, in the order files subfolder, request directory,
\* collection root.
C24_ResolutionOrder ==
    \A r \in xr.resolved :
        xr.body[r[1]].src = "rel" =>
            /\ xr.body[r[1]].in_files \/ xr.body[r[1]].in_dir \/ xr.body[r[1]].in_root
            /\ r[2] = FirstExisting(xr.body[r[1]])

\* A reference found in the files subfolder and in the collection root was
\* attached from the files subfolder.
C24_Witness ==
    /\ xr.pc = "returned"
    /\ \E r \in xr.resolved :
         /\ xr.body[r[1]].in_files
         /\ xr.body[r[1]].in_root
         /\ ~xr.body[r[1]].in_dir
         /\ r[2] = "files"

FileNotUsable(f) ==
    /\ f.type = "file"
    /\ f.src # "bad"
    /\ \/ ~f.readable
       \/ (f.src = "rel" /\ ~f.in_files /\ ~f.in_dir /\ ~f.in_root)
       \/ (f.src = "abs" /\ ~f.at_abs)

FileUsable(f) == f.type = "file" /\ f.src # "bad" /\ ~FileNotUsable(f)

\* C25: a file field whose file is not found or cannot be opened is skipped
\* alone: no exception leaves execute_request at such a field, and the
\* request is dispatched with every text field and every other file field.
C25_MissingFileSkipsOneField ==
    /\ xr.pc = "raised" => ~FileNotUsable(xr.body[xr.field])
    /\ (xr.branch = "multipart" /\ xr.pc \in {"ready", "close", "returned"})
           => /\ xr.files = { i \in 1..Len(xr.body) : FileUsable(xr.body[i]) }
              /\ xr.data = { i \in 1..Len(xr.body) : xr.body[i].type = "text" }

\* A request whose first file is missing was sent with its second field.
C25_Witness ==
    /\ xr.pc = "returned"
    /\ Len(xr.body) = 2
    /\ FileNotUsable(xr.body[1])
    /\ FileUsable(xr.body[2])
    /\ xr.files = {2}


\* --------------------------------------------- templates of a descriptor

\* C27: a template string of the descriptor, wherever it stands, is resolved
\* once: when the value of a referenced variable holds {{y}}, the dispatched
\* request carries the text with each reference replaced once and the {{y}}
\* of the value unexpanded.
C27_ResolvedExactlyOnce ==
    (/\ sb.pc = "dispatched"
     /\ sb.text.t = "str"
     /\ \A i \in 1..Len(sb.segs) :
          /\ sb.segs[i].kind \in {"lit", "ref"}
          /\ PlainName(sb.segs[i].name)
     /\ \E i \in 1..Len(sb.segs) : ValueLooksLikeReference(sb.segs[i]))
        => sb.out.s = ExpectedOut(sb.segs, sb.variables, sb.helper)


\* ------------------------------------------------- propagation of changes

\* C26: whatever a request-level hook changes in the dict it is handed, a
\* key added, overwritten or deleted, is the same in the global environment
\* after the step, and the next request starts from the global environment
\* (with the overrides of its folder).
C26_HookMutationsPropagate ==
    [][ /\ RequestHookStep =>
             \A k \in Keys :
                 current_vars'[k] # current_vars[k]
                     => global_env_vars'[k] = current_vars'[k]
        /\ (pc = "loop" /\ pc' = "parse") =>
             \A k \in Keys :
                 folder_vars'[k] = NoVal
                     => current_vars'[k] = global_env_vars[k] ]_vars

\* ------------------------------------------------------------- counters

AtRequestBoundary == pc \in {"loop", "summary", "returned", "exited"}

CountersConsistent ==
    /\ results.total = results.success + results.failure
    /\ results.warnings <= results.total
    /\ Len(failed_files) = results.failure

NoCounterDecreases ==
    /\ results'.total >= results.total
    /\ results'.success >= results.success
    /\ results'.failure >= results.failure
    /\ results'.warnings >= results.warnings

\* C28: after each request is classified, total = success + failure,
\* warnings <= total and the failed-path list has failure entries; no
\* counter ever decreases.
C28_CounterInvariant ==
    /\ [](AtRequestBoundary => CountersConsistent)
    /\ [][NoCounterDecreases]_vars

\* Two requests were counted: a success, and a failure that was a warning.
C28_Witness ==
    /\ pc = "loop"
    /\ results = [total |-> 2, success |-> 1, failure |-> 1, warnings |-> 1]
    /\ Len(failed_files) = 1

\* ------------------------------------------------------- pre-hook errors

\* C29: once the pre-hook of a request has raised, the request stays failed
\* through every later stage and is counted as a failure; it is dispatched
\* all the same and, when execute_request returns, its post-hook stage runs;
\* a collection-level hook changes neither the counters nor the ledger.
C29_PreHookErrorFails ==
    [][ /\ (pc = "req_pre" /\ script_error')
              => (pc' = "dispatch" /\ ~request_success')
        /\ (pc = "dispatch" /\ script_error)
              => /\ trace' = Append(trace, Event(idx, "dispatch"))
                 /\ pc' \in {"req_post", "tally"}
                 /\ response' # NoResponse => pc' = "req_post"
                 /\ ~request_success'
        /\ (pc = "req_post" /\ script_error)
              => /\ trace' = Append(trace, Event(idx, "req_post"))
                 /\ pc' = "classify"
                 /\ ~request_success'
        /\ (pc = "classify" /\ script_error) => ~request_success'
        /\ (TallyStep /\ script_error) => CountedFailure
        /\ CollectionHookStep
              => /\ results' = results
                 /\ failed_files' = failed_files
                 /\ classified' = classified ]_vars

\* A request whose pre-hook raised was answered 200, its post-hook passed,
\* and it was counted as a failure.
C29_Witness ==
    /\ pc = "loop"
    /\ script_error
    /\ has_pos_script
    /\ response # NoResponse
    /\ response.status = 200
    /\ ~post_script_error
    /\ ~post_assertion_error
    /\ Len(trace) >= 2
    /\ trace[Len(trace) - 1] = Event(idx, "req_post")
    /\ Len(failed_files) > 0
    /\ failed_files[Len(failed_files)] = idx

\* ----------------------------------------------- mutations before an error

\* The hook of the step raised.
HookRaised ==
    \/ pc = "req_pre" /\ script_error'
    \/ pc = "req_post" /\ post_script_error'

\* C30: when a request-level hook changes the environment and then raises,
\* every change is in the global environment after the step, the file is
\* written once with it, an assertion failure comes with an error, and the
\* request is counted as a failure.
C30_MutationsKeptOnError ==
    [][ /\ (RequestHookStep /\ HookRaised /\ current_vars' # current_vars)
              => /\ env_writes' = 1
                 /\ \A k \in Keys :
                        current_vars'[k] # current_vars[k]
                            => global_env_vars'[k] = current_vars'[k]
                 /\ env_file' = write_environment_file(global_env_vars')
        /\ post_assertion_error' => post_script_error'
        /\ (TallyStep /\ (script_error \/ post_script_error))
              => CountedFailure ]_vars

====
